---- MODULE Spec2Model ----
(***************************************************************************)
(* FJSONLiveLinkSource (JSONLiveLinkSource.cpp): a UDP receive thread that *)
(* drains a datagram socket and hands every datagram to the game thread,   *)
(* where HandleReceivedData decodes the JSON payload subject by subject    *)
(* and pushes static and frame data to the Live Link client.               *)
(***************************************************************************)
EXTENDS Integers, Sequences, FiniteSets, TLC

VARIABLES
    Socket,              \* result of FUdpSocketBuilder: "null", "stream" or "datagram"
    socketClosed,        \* Socket->Close() / DestroySocket has run
    Thread,              \* Thread != nullptr
    Stopping,            \* the stop flag
    SourceStatus,        \* the status text
    Client,              \* ReceiveClient has set Client and SourceGuid
    EncounteredSubjects, \* the subject registry
    RecvBuffer,          \* contents of the reused receive buffer
    Read,                \* bytes read by the last RecvFrom
    runPc,               \* position of the receive thread inside Run
    dtorPc,              \* position of the destructor
    sockQueue,           \* datagrams pending in the socket
    taskQueue,           \* AsyncTask lambdas queued on the game thread
    handling,            \* HandleReceivedData is inside its subject loop
    curData,             \* ReceivedData of the current or last decode task
    remaining,           \* fields of JsonObject->Values not yet iterated
    effects,             \* pushes and registry inserts of the current or last task
    regAtBegin,          \* EncounteredSubjects when the current or last task began
    readLog,             \* datagrams delivered by RecvFrom, oldest first
    dispatchLog,         \* datagrams handed to AsyncTask, oldest first
    readLogged,          \* the datagram being dispatched is in readLog
    drainAfterStop,      \* the drain cycle in progress began with the flag set
    fault,               \* "none", or the undefined behaviour the process ran into
    firstDecode,         \* per datagram, the pushes of its first completed decode
    staticPushed         \* subjects static data has been pushed for

vars == <<Socket, socketClosed, Thread, Stopping, SourceStatus, Client,
          EncounteredSubjects, RecvBuffer, Read, runPc, dtorPc, sockQueue,
          taskQueue, handling, curData, remaining, effects, regAtBegin,
          readLog, dispatchLog, readLogged, drainAfterStop, fault,
          firstDecode, staticPushed>>

\* the records kept of what the decoder has done
history == <<firstDecode, staticPushed>>

(***************************************************************************)
(* Bounds                                                                  *)
(***************************************************************************)
MaxItems == 2      \* bones plus parameters in one generated datagram
MaxPending == 2    \* datagrams between arrival and the start of their decode
MaxLog == 2        \* reads recorded in readLog

(***************************************************************************)
(* JSON values.  An object is a function from field names to values, so    *)
(* TryGet*Field is a test on its DOMAIN.                                   *)
(***************************************************************************)
Names == {"A", "B"}

EmptyObject == [f \in {} |-> 0]

Drop(obj, field) == [f \in DOMAIN obj \ {field} |-> obj[f]]

RootBone == [Name |-> "root", Parent |-> 0 - 1, Location |-> <<0, 0, 0>>,
             Rotation |-> <<0, 0, 0, 1>>, Scale |-> <<1, 1, 1>>]

HeadBone == [Name |-> "head", Parent |-> 0, Location |-> <<0, 1, 0>>,
             Rotation |-> <<0, 0, 1, 0>>, Scale |-> <<1, 1, 1>>]

GoodBones == {RootBone, HeadBone}

BadBones == {Drop(HeadBone, "Name"),
             Drop(HeadBone, "Parent"),
             [HeadBone EXCEPT !.Location = <<0, 1>>],
             [HeadBone EXCEPT !.Rotation = <<0, 0, 1>>],
             [HeadBone EXCEPT !.Scale = <<1, 1, 1, 1>>]}

BoneVariants == GoodBones \cup BadBones

BlinkParam == [Name |-> "blink", Value |-> 1]

SmileParam == [Name |-> "smile", Value |-> 16777217]

GoodParams == {BlinkParam, SmileParam}

BadParams == {Drop(BlinkParam, "Name"), Drop(BlinkParam, "Value")}

ParamVariants == GoodParams \cup BadParams

ArraysOf(S, n) == [1..n -> S]

\* the "Bone" / "Parameter" field of a subject object: absent, or an array
FieldOptions(field, S, n) ==
    IF n = 0
    THEN {EmptyObject, [f \in {field} |-> <<>>]}
    ELSE {[f \in {field} |-> arr] : arr \in ArraysOf(S, n)}

\* subject objects with exactly b bones and p parameters
SubjectObjects(b, p) ==
    {bo @@ po : bo \in FieldOptions("Bone", BoneVariants, b),
                po \in FieldOptions("Parameter", ParamVariants, p)}

ObjectsOfWeight(w) == UNION {SubjectObjects(b, w - b) : b \in 0..w}

ObjectsUpTo(w) == UNION {ObjectsOfWeight(k) : k \in 0..w}

NamePairs == {np \in Names \X Names : np[1] # np[2]}

\* JsonObject->Values of a datagram: subject name / subject object pairs in
\* iteration order, keys distinct
FieldLists(w) ==
    {<<>>}
    \cup {<<[Key |-> n, Value |-> o]>> : n \in Names, o \in ObjectsUpTo(w)}
    \cup UNION {{<<[Key |-> np[1], Value |-> o1], [Key |-> np[2], Value |-> o2]>> :
                    np \in NamePairs,
                    o1 \in ObjectsOfWeight(k), o2 \in ObjectsUpTo(w - k)} :
                k \in 0..w}

GoodObject == [Bone |-> <<RootBone>>, Parameter |-> <<BlinkParam>>]

\* payload texts.  Values are the subject fields written in the text; only
\* a text of kind "object" is a well-formed JSON object.  ArrayText is
\* [{"A": ...}], InvalidText is {"A": ...} cut off before its last brace.
ObjectText(fields) == [kind |-> "object", Values |-> fields]

ArrayText == [kind |-> "array", Values |-> <<[Key |-> "A", Value |-> GoodObject]>>]

InvalidText == [kind |-> "invalid", Values |-> <<[Key |-> "A", Value |-> GoodObject]>>]

EmptyText == [kind |-> "empty", Values |-> <<>>]

UninitText == [kind |-> "uninitialized", Values |-> <<>>]

ByteLen(text) ==
    IF text.kind = "empty" THEN 0 ELSE 2 + Len(text.Values)

Datagram(text) == [Size |-> ByteLen(text), Text |-> text]

DecodeInputs ==
    {Datagram(ArrayText), Datagram(InvalidText)}
    \cup {Datagram(ObjectText(fl)) : fl \in FieldLists(MaxItems)}

\* datagrams the network delivers in the whole-system specification
NetDatagrams ==
    {Datagram(EmptyText),
     Datagram(InvalidText),
     Datagram(ObjectText(<<[Key |-> "A", Value |-> GoodObject]>>))}

(***************************************************************************)
(* The decoder (HandleReceivedData), computed as the code computes it.     *)
(***************************************************************************)
Uninitialized == "uninitialized"

\* SetNumUninitialized(n)
UninitArray(n) == [i \in 1..n |-> Uninitialized]

\* mutant: the result of Deserialize is not tested
Deserialize_Unchecked(text) == [ok |-> TRUE, Values |-> text.Values]

\* FJsonSerializer::Deserialize into an FJsonObject: false unless the text
\* is a JSON object
Deserialize(text) ==
    [ok |-> text.kind = "object",
     Values |-> IF text.kind = "object" THEN text.Values ELSE <<>>]

TryGetArrayField(obj, field) == field \in DOMAIN obj

TryGetStringField(obj, field) == field \in DOMAIN obj

\* TryGetNumberField with an int32 out-parameter: fails outside the range
TryGetInt32Field(obj, field) ==
    /\ field \in DOMAIN obj
    /\ obj[field] >= 0 - 2147483647 - 1
    /\ obj[field] <= 2147483647

TryGetNumberField(obj, field) == field \in DOMAIN obj

\* (float)value for 0 <= value < 2^25: integers above 2^24 round to the
\* nearest even integer, ties to the even mantissa
ToFloat(value) ==
    IF value <= 16777216 \/ value % 2 = 0 THEN value
    ELSE IF (value - 1) % 4 = 0 THEN value - 1 ELSE value + 1

\* atan2 and asin in quarter turns, on the axes (the rotations of the
\* generated bones are axis-aligned unit quaternions)
Atan2(y, x) ==
    IF y = 0 THEN (IF x < 0 THEN 2 ELSE 0)
    ELSE IF y > 0 THEN 1 ELSE 0 - 1

Asin(v) == IF v > 0 THEN 1 ELSE IF v < 0 THEN 0 - 1 ELSE 0

NoHead == [headRoll |-> 0, headPitch |-> 0, headYaw |-> 0]

HeadOf(q) ==
    LET qx == q[1]
        qy == q[2]
        qz == q[3]
        qw == q[4]
    IN [headRoll |-> 0 - Atan2(2 * (qx * qy + qw * qz),
                               qw * qw + qx * qx - qy * qy - qz * qz),
        headPitch |-> Atan2(2 * (qy * qz + qw * qx),
                            qw * qw - qx * qx - qy * qy + qz * qz),
        headYaw |-> 0 - Asin((0 - 2) * (qx * qz - qw * qy))]

FTransform(BoneQuat, BoneLocation, BoneScale) ==
    [Rotation |-> BoneQuat, Translation |-> BoneLocation, Scale3D |-> BoneScale]

\* first bone loop: names and parents; ok = FALSE is the early return
RECURSIVE BoneNameLoop(_, _, _)
BoneNameLoop(BoneArray, BoneIdx, acc) ==
    IF BoneIdx > Len(BoneArray) THEN acc
    ELSE LET BoneObject == BoneArray[BoneIdx] IN
         IF ~TryGetStringField(BoneObject, "Name")
         THEN [acc EXCEPT !.ok = FALSE]
         ELSE IF ~TryGetInt32Field(BoneObject, "Parent")
         THEN [acc EXCEPT !.ok = FALSE]
         ELSE BoneNameLoop(BoneArray, BoneIdx + 1,
                  [acc EXCEPT !.BoneNames[BoneIdx] = BoneObject.Name,
                              !.BoneParents[BoneIdx] = BoneObject.Parent])

\* mutant: the angles are taken once, from the first bone
HeadAfter_FirstBone(head, BoneIdx, Rotation) ==
    IF BoneIdx = 1 THEN HeadOf(Rotation) ELSE head

\* lines 263-267 assign headRoll, headPitch, headYaw anew for every bone
HeadAfter(head, BoneIdx, Rotation) == HeadOf(Rotation)

\* second bone loop: transforms, and the head angles of every bone in turn
RECURSIVE BoneTransformLoop(_, _, _)
BoneTransformLoop(BoneArray, BoneIdx, acc) ==
    IF BoneIdx > Len(BoneArray) THEN acc
    ELSE LET BoneObject == BoneArray[BoneIdx] IN
         IF ~(TryGetArrayField(BoneObject, "Location")
              /\ Len(BoneObject.Location) = 3)
         THEN [acc EXCEPT !.ok = FALSE]
         ELSE IF ~(TryGetArrayField(BoneObject, "Rotation")
                   /\ Len(BoneObject.Rotation) = 4)
         THEN [acc EXCEPT !.ok = FALSE]
         ELSE IF ~(TryGetArrayField(BoneObject, "Scale")
                   /\ Len(BoneObject.Scale) = 3)
         THEN [acc EXCEPT !.ok = FALSE, !.head = HeadAfter(acc.head, BoneIdx, BoneObject.Rotation)]
         ELSE BoneTransformLoop(BoneArray, BoneIdx + 1,
                  [acc EXCEPT !.head = HeadAfter(acc.head, BoneIdx,
                                                     BoneObject.Rotation),
                              !.Transforms[BoneIdx] =
                                  FTransform(BoneObject.Rotation,
                                             BoneObject.Location,
                                             BoneObject.Scale)])

\* the "Bone" branch
DecodeBones(MyJsonObject) ==
    IF ~TryGetArrayField(MyJsonObject, "Bone")
    THEN [ok |-> TRUE, BoneNames |-> <<>>, BoneParents |-> <<>>,
          Transforms |-> <<>>, head |-> NoHead]
    ELSE LET BoneArray == MyJsonObject.Bone
             n == Len(BoneArray)
             first == BoneNameLoop(BoneArray, 1,
                          [ok |-> TRUE, BoneNames |-> UninitArray(n),
                           BoneParents |-> UninitArray(n)])
             second == BoneTransformLoop(BoneArray, 1,
                          [ok |-> TRUE, Transforms |-> UninitArray(n),
                           head |-> NoHead])
         IN [ok |-> first.ok /\ second.ok,
             BoneNames |-> first.BoneNames,
             BoneParents |-> first.BoneParents,
             Transforms |-> second.Transforms,
             head |-> second.head]

\* the three head slots written at raw_array_length .. raw_array_length + 2
HeadNames(PropertyNames, raw_array_length) ==
    [PropertyNames EXCEPT ![raw_array_length + 1] = "headRoll",
                          ![raw_array_length + 2] = "headPitch",
                          ![raw_array_length + 3] = "headYaw"]

HeadValues(PropertyValues, raw_array_length, head) ==
    [PropertyValues EXCEPT ![raw_array_length + 1] = head.headRoll,
                           ![raw_array_length + 2] = head.headPitch,
                           ![raw_array_length + 3] = head.headYaw]

\* mutant: the copy loops write one slot further on
PropertySlot_Shifted(i) == i + 1

\* PropertyNames[i] and PropertyValues[i] (lines 320, 336): the slot of the
\* i-th "Parameter" entry, counted from one here
PropertySlot(i) == i

\* parameter name loop
RECURSIVE ParameterNameLoop(_, _, _)
ParameterNameLoop(ParameterArray, i, acc) ==
    IF i > Len(ParameterArray) THEN acc
    ELSE LET paramobject == ParameterArray[i] IN
         IF ~TryGetStringField(paramobject, "Name")
         THEN [acc EXCEPT !.ok = FALSE]
         ELSE ParameterNameLoop(ParameterArray, i + 1,
                  [acc EXCEPT !.PropertyNames[PropertySlot(i)] = paramobject.Name])

\* mutant: a parameter without "Value" is skipped instead of returning
RECURSIVE ParameterValueLoop_Skip(_, _, _)
ParameterValueLoop_Skip(ParameterArray, i, acc) ==
    IF i > Len(ParameterArray) THEN acc
    ELSE LET paramObject == ParameterArray[i] IN
         IF ~TryGetNumberField(paramObject, "Value")
         THEN ParameterValueLoop_Skip(ParameterArray, i + 1, acc)
         ELSE ParameterValueLoop_Skip(ParameterArray, i + 1,
                  [acc EXCEPT !.PropertyValues[i] = ToFloat(paramObject.Value)])

\* parameter value loop
RECURSIVE ParameterValueLoop(_, _, _)
ParameterValueLoop(ParameterArray, i, acc) ==
    IF i > Len(ParameterArray) THEN acc
    ELSE LET paramObject == ParameterArray[i] IN
         IF ~TryGetNumberField(paramObject, "Value")
         THEN [acc EXCEPT !.ok = FALSE]
         ELSE ParameterValueLoop(ParameterArray, i + 1,
                  [acc EXCEPT !.PropertyValues[PropertySlot(i)] =
                                  ToFloat(paramObject.Value)])

\* mutant: room for two head slots only
PropertyCount_Short(raw_array_length) == raw_array_length + 2

\* array lengths of the "Parameter" branch
PropertyCount(raw_array_length) == raw_array_length + 3

\* mutant: the three head properties are appended outside the branch
NoParameters_HeadAlways(head) ==
    [ok |-> TRUE,
     PropertyNames |-> HeadNames(UninitArray(PropertyCount(0)), 0),
     PropertyValues |-> HeadValues(UninitArray(PropertyCount(0)), 0, head)]

\* no "Parameter" field: the branch of line 296 is skipped and both
\* property arrays stay as constructed
NoParameters(head) ==
    [ok |-> TRUE, PropertyNames |-> <<>>, PropertyValues |-> <<>>]

\* the "Parameter" branch
DecodeParameters(MyJsonObject, head) ==
    IF ~TryGetArrayField(MyJsonObject, "Parameter")
    THEN NoParameters(head)
    ELSE LET ParameterArray == MyJsonObject.Parameter
             raw_array_length == Len(ParameterArray)
             n == PropertyCount(raw_array_length)
             names == ParameterNameLoop(ParameterArray, 1,
                          [ok |-> TRUE,
                           PropertyNames |->
                               HeadNames(UninitArray(n), raw_array_length)])
             values == ParameterValueLoop(ParameterArray, 1,
                          [ok |-> TRUE,
                           PropertyValues |->
                               HeadValues(UninitArray(n), raw_array_length, head)])
         IN [ok |-> names.ok /\ values.ok,
             PropertyNames |-> names.PropertyNames,
             PropertyValues |-> values.PropertyValues]

\* one iteration of the subject loop up to the pushes: ok = FALSE is a return
DecodeSubject(MyJsonObject) ==
    LET bones == DecodeBones(MyJsonObject)
        params == DecodeParameters(MyJsonObject, bones.head)
    IN [ok |-> bones.ok /\ params.ok,
        StaticData |-> [BoneNames |-> bones.BoneNames,
                        BoneParents |-> bones.BoneParents,
                        PropertyNames |-> params.PropertyNames],
        FrameData |-> [Transforms |-> bones.Transforms,
                       PropertyValues |-> params.PropertyValues]]

(***************************************************************************)
(* Construction                                                            *)
(***************************************************************************)
NoData == [Size |-> 0, Text |-> UninitText]

\* mutant: the socket type is not tested
SocketReady_AnySocket(s) == s # "null"

\* (Socket != nullptr) && (Socket->GetSocketType() == SOCKTYPE_Datagram)
SocketReady(s) == s = "datagram"

\* !Stopping && Thread != nullptr && Socket != nullptr
IsSourceStillValid == ~Stopping /\ Thread /\ Socket # "null"

\* the state the constructor leaves; created = FRunnableThread::Create
\* returned a thread
Constructed(s, created) ==
    /\ Socket = s
    /\ socketClosed = FALSE
    /\ Stopping = FALSE
    /\ Thread = (SocketReady(s) /\ created)
    /\ runPc = IF SocketReady(s) /\ created THEN "check" ELSE "none"
    /\ SourceStatus = IF SocketReady(s) THEN "Receiving" ELSE "Device Not Found"
    /\ Client = FALSE
    /\ EncounteredSubjects = {}
    /\ RecvBuffer = UninitText
    /\ Read = 0
    /\ dtorPc = "alive"
    /\ sockQueue = <<>>
    /\ taskQueue = <<>>
    /\ handling = FALSE
    /\ curData = NoData
    /\ remaining = <<>>
    /\ effects = <<>>
    /\ regAtBegin = {}
    /\ readLog = <<>>
    /\ dispatchLog = <<>>
    /\ readLogged = FALSE
    /\ drainAfterStop = FALSE
    /\ fault = "none"
    /\ firstDecode = {}
    /\ staticPushed = {}

Init == \E s \in {"null", "stream", "datagram"}, created \in BOOLEAN :
            Constructed(s, created)

(***************************************************************************)
(* The network, and the calls of the owner                                 *)
(***************************************************************************)
\* datagrams read from the socket and not yet taken up by a decode task
InFlight == Len(taskQueue) + (IF runPc = "dispatch" THEN 1 ELSE 0)

\* a datagram reaches the bound socket
Arrive ==
    /\ fault = "none"
    /\ UNCHANGED history
    /\ Socket = "datagram" /\ ~socketClosed
    /\ Len(sockQueue) + InFlight < MaxPending
    /\ \E d \in NetDatagrams : sockQueue' = Append(sockQueue, d)
    /\ UNCHANGED <<Socket, socketClosed, Thread, Stopping, SourceStatus, Client,
                   EncounteredSubjects, RecvBuffer, Read, runPc, dtorPc,
                   taskQueue, handling, curData, remaining, effects, regAtBegin,
                   readLog, dispatchLog, readLogged, drainAfterStop, fault>>

ReceiveClient ==
    /\ fault = "none"
    /\ UNCHANGED history
    /\ dtorPc = "alive"
    /\ Client' = TRUE
    /\ UNCHANGED <<Socket, socketClosed, Thread, Stopping, SourceStatus,
                   EncounteredSubjects, RecvBuffer, Read, runPc, dtorPc, sockQueue,
                   taskQueue, handling, curData, remaining, effects, regAtBegin,
                   readLog, dispatchLog, readLogged, drainAfterStop, fault>>

\* mutant: a shutdown request also forgets the subjects seen
RequestSourceShutdown_Clears ==
    /\ fault = "none"
    /\ UNCHANGED history
    /\ dtorPc = "alive"
    /\ Stopping' = TRUE
    /\ EncounteredSubjects' = {}
    /\ UNCHANGED <<Socket, socketClosed, Thread, SourceStatus, Client,
                   RecvBuffer, Read, runPc, dtorPc, sockQueue,
                   taskQueue, handling, curData, remaining, effects, regAtBegin,
                   readLog, dispatchLog, readLogged, drainAfterStop, fault>>

\* Stop()
RequestSourceShutdown ==
    /\ fault = "none"
    /\ UNCHANGED history
    /\ dtorPc = "alive"
    /\ Stopping' = TRUE
    /\ UNCHANGED <<Socket, socketClosed, Thread, SourceStatus, Client,
                   EncounteredSubjects, RecvBuffer, Read, runPc, dtorPc, sockQueue,
                   taskQueue, handling, curData, remaining, effects, regAtBegin,
                   readLog, dispatchLog, readLogged, drainAfterStop, fault>>

(***************************************************************************)
(* The destructor, run by the game thread between decode tasks             *)
(***************************************************************************)
Destructor_Stop ==
    /\ fault = "none"
    /\ UNCHANGED history
    /\ dtorPc = "alive" /\ ~handling
    /\ Stopping' = TRUE
    /\ dtorPc' = "join"
    /\ UNCHANGED <<Socket, socketClosed, Thread, SourceStatus, Client,
                   EncounteredSubjects, RecvBuffer, Read, runPc, sockQueue,
                   taskQueue, handling, curData, remaining, effects, regAtBegin,
                   readLog, dispatchLog, readLogged, drainAfterStop, fault>>

\* mutant: the destructor does not wait for the thread
JoinReturns_AtOnce(pc) == TRUE

\* Thread->WaitForCompletion() returns once Run has returned
JoinReturns(pc) == pc = "done"

Destructor_Join ==
    /\ fault = "none"
    /\ UNCHANGED history
    /\ dtorPc = "join"
    /\ Thread => JoinReturns(runPc)
    /\ Thread' = FALSE
    /\ dtorPc' = "close"
    /\ UNCHANGED <<Socket, socketClosed, Stopping, SourceStatus, Client,
                   EncounteredSubjects, RecvBuffer, Read, runPc, sockQueue,
                   taskQueue, handling, curData, remaining, effects, regAtBegin,
                   readLog, dispatchLog, readLogged, drainAfterStop, fault>>

Destructor_Close ==
    /\ fault = "none"
    /\ UNCHANGED history
    /\ dtorPc = "close"
    /\ socketClosed' = (Socket # "null")
    /\ sockQueue' = <<>>
    /\ dtorPc' = "destroyed"
    /\ UNCHANGED <<Socket, Thread, Stopping, SourceStatus, Client,
                   EncounteredSubjects, RecvBuffer, Read, runPc,
                   taskQueue, handling, curData, remaining, effects, regAtBegin,
                   readLog, dispatchLog, readLogged, drainAfterStop, fault>>

(***************************************************************************)
(* Run, on the receive thread                                              *)
(***************************************************************************)
\* readLog and dispatchLog keep the first MaxLog reads
Record(log, d) == IF Len(log) < MaxLog THEN Append(log, d) ELSE log

\* mutant: the loop condition does not read the flag
LoopExits_Never(stopping) == FALSE

\* while (!Stopping)
LoopExits(stopping) == stopping

Run_Check ==
    /\ fault = "none"
    /\ UNCHANGED history
    /\ runPc = "check"
    /\ runPc' = IF LoopExits(Stopping) THEN "done" ELSE "wait"
    /\ UNCHANGED <<Socket, socketClosed, Thread, Stopping, SourceStatus, Client,
                   EncounteredSubjects, RecvBuffer, Read, dtorPc, sockQueue,
                   taskQueue, handling, curData, remaining, effects, regAtBegin,
                   readLog, dispatchLog, readLogged, drainAfterStop, fault>>

\* Socket->Wait(WaitForRead, WaitTime): true when a datagram is pending,
\* false when the wait times out
Run_Wait ==
    /\ fault = "none"
    /\ UNCHANGED history
    /\ runPc = "wait"
    /\ IF sockQueue # <<>>
       THEN runPc' = "pending" /\ drainAfterStop' = Stopping
       ELSE runPc' = "check" /\ UNCHANGED drainAfterStop
    /\ UNCHANGED <<Socket, socketClosed, Thread, Stopping, SourceStatus, Client,
                   EncounteredSubjects, RecvBuffer, Read, dtorPc, sockQueue,
                   taskQueue, handling, curData, remaining, effects, regAtBegin,
                   readLog, dispatchLog, readLogged, fault>>

\* while (Socket->HasPendingData(Size))
Run_HasPendingData ==
    /\ fault = "none"
    /\ UNCHANGED history
    /\ runPc = "pending"
    /\ IF sockQueue # <<>>
       THEN runPc' = "recv" /\ UNCHANGED drainAfterStop
       ELSE runPc' = "check" /\ drainAfterStop' = FALSE
    /\ UNCHANGED <<Socket, socketClosed, Thread, Stopping, SourceStatus, Client,
                   EncounteredSubjects, RecvBuffer, Read, dtorPc, sockQueue,
                   taskQueue, handling, curData, remaining, effects, regAtBegin,
                   readLog, dispatchLog, readLogged, fault>>

\* mutant: the Read > 0 test is missing
ShouldDispatch_AnyRead(received, read) == received

\* if (Socket->RecvFrom(...)) if (Read > 0)
ShouldDispatch(received, read) == received /\ read > 0

\* int32 Read = 0; Socket->RecvFrom(RecvBuffer.GetData(), RecvBuffer.Num(), Read, *Sender):
\* the datagram at the head of the socket is consumed; on failure nothing
\* is delivered
Run_RecvFrom ==
    /\ fault = "none"
    /\ UNCHANGED history
    /\ runPc = "recv"
    /\ \E received \in BOOLEAN :
         LET d == Head(sockQueue)
             read == IF received THEN d.Size ELSE 0
         IN /\ sockQueue' = Tail(sockQueue)
            /\ Read' = read
            /\ RecvBuffer' = IF read > 0 THEN d.Text ELSE RecvBuffer
            /\ readLog' = IF received THEN Record(readLog, d) ELSE readLog
            /\ readLogged' = (received /\ Len(readLog) < MaxLog)
            /\ runPc' = IF ShouldDispatch(received, read) THEN "dispatch" ELSE "pending"
    /\ UNCHANGED <<Socket, socketClosed, Thread, Stopping, SourceStatus, Client,
                   EncounteredSubjects, dtorPc,
                   taskQueue, handling, curData, remaining, effects, regAtBegin,
                   dispatchLog, drainAfterStop, fault>>

\* ReceivedData: a fresh array of Read bytes copied out of RecvBuffer
CopyOut(buffer, read) == [Size |-> read, Text |-> buffer]

\* AsyncTask(ENamedThreads::GameThread, ...): the task joins the end of the
\* game thread's queue
Enqueue(queue, task) == Append(queue, task)

Run_Dispatch ==
    /\ fault = "none"
    /\ UNCHANGED history
    /\ runPc = "dispatch"
    /\ LET ReceivedData == CopyOut(RecvBuffer, Read)
       IN /\ taskQueue' = Enqueue(taskQueue, ReceivedData)
          /\ dispatchLog' = IF readLogged THEN Enqueue(dispatchLog, ReceivedData)
                            ELSE dispatchLog
    /\ readLogged' = FALSE
    /\ runPc' = "pending"
    /\ UNCHANGED <<Socket, socketClosed, Thread, Stopping, SourceStatus, Client,
                   EncounteredSubjects, RecvBuffer, Read, dtorPc, sockQueue,
                   handling, curData, remaining, effects, regAtBegin,
                   readLog, drainAfterStop, fault>>

(***************************************************************************)
(* HandleReceivedData, on the game thread                                  *)
(***************************************************************************)
\* mutant: static data is pushed for a new subject only
SubjectEffects_Gated(SubjectName, bCreateSubject, decoded) ==
    (IF bCreateSubject
     THEN <<[op |-> "PushSubjectStaticData", subject |-> SubjectName,
             bCreateSubject |-> bCreateSubject, data |-> decoded.StaticData]>>
     ELSE <<>>)
    \o <<[op |-> "EncounteredSubjects.Add", subject |-> SubjectName,
          bCreateSubject |-> bCreateSubject, data |-> EmptyObject],
         [op |-> "PushSubjectFrameData", subject |-> SubjectName,
          bCreateSubject |-> bCreateSubject, data |-> decoded.FrameData]>>

\* mutant: a subject already known keeps the property names sent before
SubjectEffects_KnownKeepsNames(SubjectName, bCreateSubject, decoded) ==
    <<[op |-> "PushSubjectStaticData", subject |-> SubjectName,
       bCreateSubject |-> bCreateSubject,
       data |-> IF bCreateSubject THEN decoded.StaticData
                ELSE [decoded.StaticData EXCEPT !.PropertyNames = <<>>]],
      [op |-> "EncounteredSubjects.Add", subject |-> SubjectName,
       bCreateSubject |-> bCreateSubject, data |-> EmptyObject],
      [op |-> "PushSubjectFrameData", subject |-> SubjectName,
       bCreateSubject |-> bCreateSubject, data |-> decoded.FrameData]>>

\* lines 345-347: what one completed subject iteration does, in order
SubjectEffects(SubjectName, bCreateSubject, decoded) ==
    <<[op |-> "PushSubjectStaticData", subject |-> SubjectName,
       bCreateSubject |-> bCreateSubject, data |-> decoded.StaticData],
      [op |-> "EncounteredSubjects.Add", subject |-> SubjectName,
       bCreateSubject |-> bCreateSubject, data |-> EmptyObject],
      [op |-> "PushSubjectFrameData", subject |-> SubjectName,
       bCreateSubject |-> bCreateSubject, data |-> decoded.FrameData]>>

\* the pushes and inserts of a task, as the sink and the registry see them
PushesOf(effs) ==
    [k \in DOMAIN effs |->
        [op |-> effs[k].op, subject |-> effs[k].subject, data |-> effs[k].data]]

\* firstDecode once a decode of `data` has ended with the effects `effs`
Remember(first, data, effs) ==
    IF \E e \in first : e.data = data
    THEN first
    ELSE first \cup {[data |-> data, pushes |-> PushesOf(effs)]}

\* the subjects of the static pushes among `effs`
StaticSubjects(effs) ==
    {effs[k].subject : k \in {j \in DOMAIN effs : effs[j].op = "PushSubjectStaticData"}}

\* mutant: the lambda refers to the receive buffer instead of owning a copy
TaskBytes_Shared(ReceivedData, buffer) ==
    [Size |-> ReceivedData.Size, Text |-> buffer]

\* the bytes the lambda of line 145 hands to HandleReceivedData: the array
\* it captured by value
TaskBytes(ReceivedData, buffer) == ReceivedData

\* mutant: tasks go to any worker thread
GameThreadFree_AnyThread(busy) == TRUE

\* ENamedThreads::GameThread: the one game thread takes the next task when
\* it is not inside another
GameThreadFree(busy) == ~busy

\* mutant: the subject is recorded where bCreateSubject is computed
RegistryAfter_Eager(registry, SubjectName, pushed) == registry \cup {SubjectName}

\* EncounteredSubjects after one iteration: Add at line 346 sits between
\* the two pushes, behind every return
RegistryAfter(registry, SubjectName, pushed) ==
    IF pushed THEN registry \cup {SubjectName} ELSE registry

\* the task is taken from the queue, the bytes become JsonString and are
\* deserialized (lines 154-171)
HandleReceivedData_Begin ==
    /\ fault = "none"
    /\ taskQueue # <<>> /\ GameThreadFree(handling)
    /\ dtorPc = "alive"
    /\ LET ReceivedData == TaskBytes(Head(taskQueue), RecvBuffer)
           parsed == Deserialize(ReceivedData.Text)
           entered == parsed.ok /\ parsed.Values # <<>>
       IN /\ curData' = ReceivedData
          /\ remaining' = parsed.Values
          /\ handling' = entered
          /\ firstDecode' = IF entered THEN firstDecode
                            ELSE Remember(firstDecode, ReceivedData, <<>>)
    /\ taskQueue' = Tail(taskQueue)
    /\ effects' = <<>>
    /\ regAtBegin' = EncounteredSubjects
    /\ UNCHANGED staticPushed
    /\ UNCHANGED <<Socket, socketClosed, Thread, Stopping, SourceStatus, Client,
                   EncounteredSubjects, RecvBuffer, Read, runPc, dtorPc, sockQueue,
                   readLog, dispatchLog, readLogged, drainAfterStop, fault>>

\* one iteration of the loop over JsonObject->Values (lines 173-348); a
\* return inside the iteration ends the task
HandleReceivedData_Subject ==
    /\ fault = "none"
    /\ handling
    /\ LET JsonField == Head(remaining)
           SubjectName == JsonField.Key
           bCreateSubject == SubjectName \notin EncounteredSubjects
           decoded == DecodeSubject(JsonField.Value)
       IN IF ~decoded.ok
          THEN /\ handling' = FALSE
               /\ remaining' = <<>>
               /\ EncounteredSubjects' =
                      RegistryAfter(EncounteredSubjects, SubjectName, FALSE)
               /\ firstDecode' = Remember(firstDecode, curData, effects)
               /\ UNCHANGED <<effects, fault, staticPushed>>
          ELSE IF ~Client
          THEN /\ handling' = FALSE
               /\ remaining' = <<>>
               /\ fault' = "client not set"
               /\ UNCHANGED <<effects, EncounteredSubjects, history>>
          ELSE LET done == SubjectEffects(SubjectName, bCreateSubject, decoded)
               IN /\ effects' = effects \o done
                  /\ EncounteredSubjects' =
                         RegistryAfter(EncounteredSubjects, SubjectName, TRUE)
                  /\ staticPushed' = staticPushed \cup StaticSubjects(done)
                  /\ remaining' = Tail(remaining)
                  /\ handling' = (Tail(remaining) # <<>>)
                  /\ firstDecode' = IF Tail(remaining) # <<>> THEN firstDecode
                                    ELSE Remember(firstDecode, curData, effects \o done)
                  /\ UNCHANGED fault
    /\ UNCHANGED <<Socket, socketClosed, Thread, Stopping, SourceStatus, Client,
                   RecvBuffer, Read, runPc, dtorPc, sockQueue, taskQueue, curData,
                   regAtBegin, readLog, dispatchLog, readLogged, drainAfterStop>>

\* a queued task runs after the destructor: its captured this dangles
DanglingTask ==
    /\ fault = "none"
    /\ UNCHANGED history
    /\ taskQueue # <<>> /\ ~handling
    /\ dtorPc = "destroyed"
    /\ taskQueue' = Tail(taskQueue)
    /\ fault' = "destroyed source"
    /\ UNCHANGED <<Socket, socketClosed, Thread, Stopping, SourceStatus, Client,
                   EncounteredSubjects, RecvBuffer, Read, runPc, dtorPc, sockQueue,
                   handling, curData, remaining, effects, regAtBegin,
                   readLog, dispatchLog, readLogged, drainAfterStop>>

(***************************************************************************)
(* Specifications                                                          *)
(***************************************************************************)
Run == Run_Check \/ Run_Wait \/ Run_HasPendingData \/ Run_RecvFrom \/ Run_Dispatch

GameThread == HandleReceivedData_Begin \/ HandleReceivedData_Subject \/ DanglingTask

Next ==
    \/ Arrive
    \/ ReceiveClient
    \/ RequestSourceShutdown
    \/ Destructor_Stop
    \/ Destructor_Join
    \/ Destructor_Close
    \/ Run_Check
    \/ Run_Wait
    \/ Run_HasPendingData
    \/ Run_RecvFrom
    \/ Run_Dispatch
    \/ HandleReceivedData_Begin
    \/ HandleReceivedData_Subject
    \/ DanglingTask

Spec == Init /\ [][Next]_vars

\* the receive thread and the game thread are scheduled fairly; the network
\* and the owner are not
FairSpec == Spec /\ WF_vars(Run) /\ WF_vars(GameThread)

(***************************************************************************)
(* The decoder on generated datagrams: the source is receiving, the        *)
(* subjects of `known` were registered by an earlier datagram, and the     *)
(* datagram d has just been dispatched.                                    *)
(***************************************************************************)
BareObject == [Bone |-> <<>>, Parameter |-> <<>>]

KnownOrders == {<<>>, <<"A">>, <<"B">>, <<"A", "B">>}

PriorDatagram(known) ==
    Datagram(ObjectText([i \in 1..Len(known) |->
                            [Key |-> known[i], Value |-> BareObject]]))

RECURSIVE PriorEffects(_)
PriorEffects(known) ==
    IF known = <<>> THEN <<>>
    ELSE SubjectEffects(Head(known), TRUE, DecodeSubject(BareObject))
             \o PriorEffects(Tail(known))

Dispatched(known, d) ==
    /\ Socket = "datagram"
    /\ socketClosed = FALSE
    /\ Stopping = FALSE
    /\ Thread = TRUE
    /\ runPc = "pending"
    /\ SourceStatus = "Receiving"
    /\ Client = TRUE
    /\ EncounteredSubjects = {known[i] : i \in 1..Len(known)}
    /\ RecvBuffer = d.Text
    /\ Read = d.Size
    /\ dtorPc = "alive"
    /\ sockQueue = <<>>
    /\ taskQueue = <<d>>
    /\ handling = FALSE
    /\ curData = IF known = <<>> THEN NoData ELSE PriorDatagram(known)
    /\ remaining = <<>>
    /\ effects = PriorEffects(known)
    /\ regAtBegin = {}
    /\ readLog = IF known = <<>> THEN <<d>> ELSE Record(<<PriorDatagram(known)>>, d)
    /\ dispatchLog = IF known = <<>> THEN <<d>> ELSE Record(<<PriorDatagram(known)>>, d)
    /\ readLogged = FALSE
    /\ drainAfterStop = FALSE
    /\ fault = "none"
    /\ firstDecode = IF known = <<>> THEN {}
                     ELSE Remember({}, PriorDatagram(known), PriorEffects(known))
    /\ staticPushed = StaticSubjects(PriorEffects(known))

DecodeInit == \E known \in KnownOrders, d \in DecodeInputs : Dispatched(known, d)

DecodeNext == HandleReceivedData_Begin \/ HandleReceivedData_Subject

DecodeSpec == DecodeInit /\ [][DecodeNext]_vars

(***************************************************************************)
(* The decoder given the same datagram twice: a freshly constructed source *)
(* whose thread has read and dispatched `d`, possibly another datagram,    *)
(* and `d` again, before the game thread ran any of the tasks.             *)
(***************************************************************************)
OtherDatagram ==
    Datagram(ObjectText(<<[Key |-> "A", Value |-> GoodObject],
                          [Key |-> "B", Value |-> BareObject]>>))

RECURSIVE RecordAll(_, _)
RecordAll(log, ds) ==
    IF ds = <<>> THEN log ELSE RecordAll(Record(log, Head(ds)), Tail(ds))

Redelivered(d, between) ==
    /\ Socket = "datagram"
    /\ socketClosed = FALSE
    /\ Stopping = FALSE
    /\ Thread = TRUE
    /\ runPc = "pending"
    /\ SourceStatus = "Receiving"
    /\ Client = TRUE
    /\ EncounteredSubjects = {}
    /\ RecvBuffer = d.Text
    /\ Read = d.Size
    /\ dtorPc = "alive"
    /\ sockQueue = <<>>
    /\ taskQueue = <<d>> \o between \o <<d>>
    /\ handling = FALSE
    /\ curData = NoData
    /\ remaining = <<>>
    /\ effects = <<>>
    /\ regAtBegin = {}
    /\ readLog = RecordAll(<<>>, <<d>> \o between \o <<d>>)
    /\ dispatchLog = RecordAll(<<>>, <<d>> \o between \o <<d>>)
    /\ readLogged = FALSE
    /\ drainAfterStop = FALSE
    /\ fault = "none"
    /\ firstDecode = {}
    /\ staticPushed = {}

TwiceInit ==
    \E d \in DecodeInputs, between \in {<<>>, <<OtherDatagram>>} :
        Redelivered(d, between)

TwiceSpec == TwiceInit /\ [][DecodeNext]_vars

(***************************************************************************)
(* Properties of the decoder                                               *)
(***************************************************************************)
\* the subject fields of the datagram of the current or last task
CurFields == IF curData.Text.kind = "object" THEN curData.Text.Values ELSE <<>>

\* the last task has run to its end and no other is queued
TaskFinished == ~handling /\ taskQueue = <<>> /\ curData # NoData /\ fault = "none"

BoneCount(obj) == IF "Bone" \in DOMAIN obj THEN Len(obj.Bone) ELSE 0

ParameterCount(obj) == IF "Parameter" \in DOMAIN obj THEN Len(obj.Parameter) ELSE 0

WellFormedBone(b) ==
    /\ {"Name", "Parent", "Location", "Rotation", "Scale"} \subseteq DOMAIN b
    /\ Len(b.Location) = 3
    /\ Len(b.Rotation) = 4
    /\ Len(b.Scale) = 3

WellFormedParameter(q) == {"Name", "Value"} \subseteq DOMAIN q

WellFormedSubject(obj) ==
    /\ \A i \in 1..BoneCount(obj) : WellFormedBone(obj.Bone[i])
    /\ \A i \in 1..ParameterCount(obj) : WellFormedParameter(obj.Parameter[i])

PushedFor(name, op) ==
    \E i \in DOMAIN effects : effects[i].subject = name /\ effects[i].op = op

Pushes(name, op) ==
    {effects[i].data : i \in {j \in DOMAIN effects :
                                  effects[j].subject = name /\ effects[j].op = op}}

\* C1: when a datagram holds a malformed subject, every well-formed subject
\* of the same datagram, before or after the malformed one, has had its
\* static data and its frame data pushed once the task has finished.
C1_OtherSubjectsPushed ==
    TaskFinished =>
        \A i \in DOMAIN CurFields :
            (/\ WellFormedSubject(CurFields[i].Value)
             /\ \E j \in DOMAIN CurFields : ~WellFormedSubject(CurFields[j].Value))
            => /\ PushedFor(CurFields[i].Key, "PushSubjectStaticData")
               /\ PushedFor(CurFields[i].Key, "PushSubjectFrameData")

\* C2: a subject whose update has a structural defect gets neither a static
\* nor a frame push (nor a registry insert) from that datagram, whatever was
\* parsed before the defect.
C2_NoPushForDefectiveSubject ==
    \A i \in DOMAIN CurFields :
        ~WellFormedSubject(CurFields[i].Value)
        => \A k \in DOMAIN effects : effects[k].subject # CurFields[i].Key

\* C2 witness: a task has finished on a subject whose first bone is sound
\* and whose second bone is defective, and nothing was pushed.
C2_Witness ==
    /\ TaskFinished
    /\ effects = <<>>
    /\ \E i \in DOMAIN CurFields :
          /\ BoneCount(CurFields[i].Value) = 2
          /\ WellFormedBone(CurFields[i].Value.Bone[1])
          /\ ~WellFormedBone(CurFields[i].Value.Bone[2])

\* the array lengths C3 states for a pushed subject with N bones
BoneLengthsHold(obj, static, frame) ==
    /\ Len(static.BoneNames) = BoneCount(obj)
    /\ Len(static.BoneParents) = BoneCount(obj)
    /\ Len(frame.Transforms) = BoneCount(obj)

\* the property arrays C3 states for a pushed subject with P parameters
PropertyLengthsHold(obj, static, frame) ==
    LET P == ParameterCount(obj)
    IN /\ Len(static.PropertyNames) = P + 3
       /\ Len(frame.PropertyValues) = P + 3
       /\ SubSeq(static.PropertyNames, P + 1, P + 3)
              = <<"headRoll", "headPitch", "headYaw">>

\* C3 as stated: every pushed subject update with N bones and P parameters
\* has bone arrays of length N, property arrays of length P + 3, and the
\* last three property names headRoll, headPitch, headYaw.
C3_LengthsAsStated ==
    \A i \in DOMAIN CurFields :
        \A static \in Pushes(CurFields[i].Key, "PushSubjectStaticData") :
            \A frame \in Pushes(CurFields[i].Key, "PushSubjectFrameData") :
                /\ BoneLengthsHold(CurFields[i].Value, static, frame)
                /\ PropertyLengthsHold(CurFields[i].Value, static, frame)

\* C3 amended: the bone arrays have length N; the property arrays have
\* length P + 3 and end in headRoll, headPitch, headYaw when the update has
\* a "Parameter" field, and are empty when it has none.
C3_LengthsAmended ==
    \A i \in DOMAIN CurFields :
        \A static \in Pushes(CurFields[i].Key, "PushSubjectStaticData") :
            \A frame \in Pushes(CurFields[i].Key, "PushSubjectFrameData") :
                /\ BoneLengthsHold(CurFields[i].Value, static, frame)
                /\ IF "Parameter" \in DOMAIN CurFields[i].Value
                   THEN PropertyLengthsHold(CurFields[i].Value, static, frame)
                   ELSE static.PropertyNames = <<>> /\ frame.PropertyValues = <<>>

\* C3 witness: a subject with a bone and a parameter has been pushed.
C3_Witness ==
    /\ TaskFinished
    /\ \E i \in DOMAIN CurFields :
          /\ BoneCount(CurFields[i].Value) = 1
          /\ ParameterCount(CurFields[i].Value) = 1
          /\ PushedFor(CurFields[i].Key, "PushSubjectStaticData")
          /\ PushedFor(CurFields[i].Key, "PushSubjectFrameData")

\* C9: the effects of a task are, per decoded subject and in this order, a
\* static push, the registry insert and a frame push, all for that subject;
\* the static push is there whether or not the subject was already known,
\* and every subject with an effect is in the registry.
C9_StaticRegisterFrame ==
    /\ Len(effects) % 3 = 0
    /\ \A k \in 0..((Len(effects) \div 3) - 1) :
          /\ effects[3 * k + 1].op = "PushSubjectStaticData"
          /\ effects[3 * k + 2].op = "EncounteredSubjects.Add"
          /\ effects[3 * k + 3].op = "PushSubjectFrameData"
          /\ effects[3 * k + 2].subject = effects[3 * k + 1].subject
          /\ effects[3 * k + 3].subject = effects[3 * k + 1].subject
          /\ effects[3 * k + 1].subject \in EncounteredSubjects
    /\ handling =>
          Len(effects) = 3 * (Len(CurFields) - Len(remaining))

\* C9 witness: static data was pushed for a subject the registry already held.
C9_Witness ==
    /\ TaskFinished
    /\ \E k \in DOMAIN effects :
          /\ effects[k].op = "PushSubjectStaticData"
          /\ ~effects[k].bCreateSubject
          /\ effects[k].subject \in regAtBegin

\* C10: a datagram whose payload is no JSON object is discarded whole:
\* nothing is pushed and the registry stays as it was.
C10_MalformedDatagramDiscarded ==
    (curData # NoData /\ curData.Text.kind # "object")
    => /\ effects = <<>>
       /\ EncounteredSubjects = regAtBegin
       /\ ~handling

\* C10 witness: a task has finished on a payload that is no JSON object
\* although it names a subject.
C10_Witness ==
    /\ TaskFinished
    /\ curData.Text.kind \in {"array", "invalid"}
    /\ curData.Text.Values # <<>>

(***************************************************************************)
(* Properties of the receive loop and of shutdown                          *)
(***************************************************************************)
LoopOver == runPc \in {"done", "none"}

\* C4 as stated: no datagram is read, and so none dispatched, in a drain
\* cycle that began after the stop flag was set, also when the flag was set
\* during the readability wait.
C4_NoDrainAfterStop == ~(drainAfterStop /\ runPc = "dispatch")

\* C4 amended: once the loop condition is evaluated with the flag set, Run
\* returns: no wait, read or dispatch follows, and nothing follows once Run
\* has returned.  (The poll/drain cycle already under way when the flag is
\* set, its wait included, still reads and dispatches.)
C4_NoCycleOnceFlagSeen ==
    [][((runPc = "check" /\ Stopping) \/ runPc = "done")
       => (runPc' \in {"check", "done"} /\ UNCHANGED <<readLog, dispatchLog>>)]_vars

\* C4 witness: Run has returned on the flag while a datagram is pending.
C4_Witness == Stopping /\ runPc = "done" /\ sockQueue # <<>>

\* C5: after a stop request Run eventually returns, whatever the arrival of
\* datagrams (unless the process has run into undefined behaviour).
C5_StopLeadsToExit ==
    (Stopping /\ fault = "none") ~> (LoopOver \/ fault # "none")

\* C6: the destructor sets the flag, then joins, then closes: the socket is
\* closed only when Run has returned (or never ran), so the loop is never
\* inside a wait, a read or a dispatch with the socket closed.
C6_SocketClosedAfterLoop ==
    /\ socketClosed => LoopOver
    /\ dtorPc \in {"join", "close", "destroyed"} => Stopping
    /\ dtorPc \in {"close", "destroyed"} => (~Thread /\ LoopOver)
    /\ dtorPc \in {"join", "close"} => ~socketClosed

\* C6 witness: the socket is closed after a loop that has read datagrams.
C6_Witness == socketClosed /\ runPc = "done" /\ readLog # <<>>

\* C7: without a datagram socket the loop is never started, nothing is
\* read or dispatched, the status stays "Device Not Found" and
\* IsSourceStillValid is false.
C7_NoLoopWithoutSocket ==
    Socket # "datagram"
    => /\ ~Thread
       /\ runPc = "none"
       /\ readLog = <<>> /\ dispatchLog = <<>> /\ taskQueue = <<>>
       /\ SourceStatus = "Device Not Found"
       /\ SourceStatus # "Receiving"
       /\ ~IsSourceStillValid

\* C7 witness: construction found no datagram socket, and the owner has
\* since attached the client and not asked for shutdown.
C7_Witness == Socket # "datagram" /\ Client /\ ~Stopping

NonEmpty(d) == d.Size > 0

\* C8: the dispatched datagrams are the non-empty datagrams read, each once
\* and in the order read (the one read but not yet dispatched set aside).
C8_DispatchesAreNonEmptyReads ==
    LET reads == SelectSeq(readLog, NonEmpty)
        expected == IF runPc = "dispatch" /\ readLogged
                    THEN SubSeq(reads, 1, Len(reads) - 1)
                    ELSE reads
    IN /\ dispatchLog = expected
       /\ \A i \in DOMAIN taskQueue : NonEmpty(taskQueue[i])

\* C8 witness: a zero-byte datagram and then a non-empty one were read, and
\* the second was dispatched.
C8_Witness ==
    /\ Len(readLog) = 2 /\ ~NonEmpty(readLog[1])
    /\ dispatchLog = <<readLog[2]>>

(***************************************************************************)
(* Claims on the decoder, second part                                      *)
(***************************************************************************)
\* the iteration of the i-th subject of the current datagram has run to its
\* pushes: it and the subjects before it hold no malformed entry
Reached(i) ==
    /\ i <= Len(CurFields) - Len(remaining)
    /\ \A j \in 1..i : WellFormedSubject(CurFields[j].Value)

Bare(obj) == DOMAIN obj \cap {"Bone", "Parameter"} = {}

PushesFor(pushes, name) ==
    SelectSeq(pushes, LAMBDA e : e.subject = name /\ e.op # "EncounteredSubjects.Add")

\* C12: decoding does not depend on the registry: whenever a decode of a
\* datagram has ended, the static and frame data it pushed for each subject
\* are the ones the first decode of the same datagram pushed, whatever was
\* decoded in between and whether or not the subject was known.
C12_SameDatagramSamePushes ==
    (~handling /\ curData # NoData /\ fault = "none")
    => \A e \in firstDecode :
          e.data = curData
          => \A name \in Names :
                PushesFor(e.pushes, name) = PushesFor(PushesOf(effects), name)

\* C12 witness: the second decode of a datagram has ended; its subject,
\* with a bone and a parameter, was unknown the first time and known now.
C12_Witness ==
    /\ ~handling /\ taskQueue = <<>> /\ fault = "none"
    /\ regAtBegin # {}
    /\ \E k \in DOMAIN effects :
          /\ effects[k].op = "PushSubjectStaticData"
          /\ ~effects[k].bCreateSubject
          /\ effects[k].data.BoneNames # <<>>
          /\ Len(effects[k].data.PropertyNames) > 3
          /\ \E e \in firstDecode :
                e.data = curData /\ e.pushes = PushesOf(effects)

\* roll, pitch and yaw of the two rotations the generated bones carry, in
\* quarter turns
RotationAngles(q) ==
    IF q = <<0, 0, 1, 0>> THEN <<0 - 2, 0, 0>> ELSE <<0, 0, 0>>

\* C13: in every pushed update of a subject with a "Parameter" field, the
\* three head values are the angles of the rotation of the subject's last
\* "Bone" entry, and all zero when the subject has no bones; nothing is
\* carried over from the subject decoded before it.
C13_HeadFromLastBone ==
    \A i \in DOMAIN CurFields :
        LET obj == CurFields[i].Value
            P == ParameterCount(obj)
            N == BoneCount(obj)
        IN (3 * i <= Len(effects) /\ "Parameter" \in DOMAIN obj)
           => LET v == effects[3 * i].data.PropertyValues
              IN /\ effects[3 * i].op = "PushSubjectFrameData"
                 /\ effects[3 * i].subject = CurFields[i].Key
                 /\ <<v[P + 1], v[P + 2], v[P + 3]>> =
                       IF N = 0 THEN <<0, 0, 0>>
                       ELSE RotationAngles(obj.Bone[N].Rotation)

\* C13 witness: a datagram of two subjects was pushed; the first has a
\* rotated last bone and non-zero head values, the second has a
\* "Parameter" field, no bones, and zero head values.
C13_Witness ==
    /\ TaskFinished
    /\ Len(CurFields) = 2 /\ Len(effects) = 6
    /\ BoneCount(CurFields[1].Value) > 0
    /\ "Parameter" \in DOMAIN CurFields[1].Value
    /\ effects[3].data.PropertyValues[ParameterCount(CurFields[1].Value) + 1] # 0
    /\ "Parameter" \in DOMAIN CurFields[2].Value
    /\ BoneCount(CurFields[2].Value) = 0
    /\ effects[6].data.PropertyValues = <<0, 0, 0>>

(***************************************************************************)
(* Claims on the whole system, second part                                 *)
(***************************************************************************)
\* C14: a decode task sees exactly the bytes of its datagram: the task
\* queued by a dispatch holds the datagram just read, no step changes a
\* task that is queued, and a task that begins decodes the bytes it was
\* queued with, whatever the receive buffer holds by then.
C14_TaskSeesItsDatagram ==
    [][/\ (runPc = "dispatch" /\ runPc' # "dispatch" /\ readLogged)
          => taskQueue' = Append(taskQueue, readLog[Len(readLog)])
       /\ Len(taskQueue') >= Len(taskQueue)
          => SubSeq(taskQueue', 1, Len(taskQueue)) = taskQueue
       /\ (Len(taskQueue') < Len(taskQueue) /\ fault' = "none")
          => (taskQueue' = Tail(taskQueue) /\ curData' = Head(taskQueue))]_vars

\* C14 witness: a task is being decoded while the receive buffer already
\* holds the different datagram that was read after it.
C14_Witness ==
    /\ handling /\ fault = "none"
    /\ Len(readLog) = 2 /\ readLog[1] = curData
    /\ readLog[2].Text = RecvBuffer /\ RecvBuffer # curData.Text
    /\ dispatchLog = readLog

\* C15: the check-then-insert on the registry is never interleaved: while a
\* decode task is inside its subject loop no other task begins, the
\* registry changes only in a step of that running task, and no step of the
\* receive thread changes the registry.
C15_OneDecodeAtATime ==
    [][/\ handling => (Len(taskQueue') >= Len(taskQueue) /\ curData' = curData)
       /\ EncounteredSubjects' # EncounteredSubjects
          => (handling /\ curData' = curData /\ runPc' = runPc)
       /\ runPc' # runPc
          => (EncounteredSubjects' = EncounteredSubjects
              /\ regAtBegin' = regAtBegin)]_vars

\* C15 witness: a decode task is inside its subject loop while another task
\* waits in the game thread's queue and the receive thread is about to
\* dispatch a third datagram.
C15_Witness ==
    /\ handling /\ fault = "none"
    /\ taskQueue # <<>>
    /\ runPc = "dispatch"

\* C16: the registry only grows: no step of any thread, whether a datagram
\* arrives, a stop is requested, a task is decoded or the source is
\* destroyed, removes a name from it.
C16_RegistryOnlyGrows ==
    [][EncounteredSubjects \subseteq EncounteredSubjects']_vars

\* C16 witness: a subject was registered, a stop was requested, and the
\* task decoded last pushed nothing; the name is still in the registry.
C16_Witness ==
    /\ EncounteredSubjects # {}
    /\ Stopping
    /\ ~handling /\ curData # NoData /\ effects = <<>>

\* the single-precision number nearest to a generated "Value"
SinglePrecision(v) == IF v = 16777217 THEN 16777216 ELSE v

\* the property slots of the pushed update of the i-th subject: names and
\* values of the "Parameter" entries in order, then the head names and the
\* head values; `exact` asks for the values as sent
SlotsHold(i, exact) ==
    LET obj == CurFields[i].Value
        P == ParameterCount(obj)
        N == BoneCount(obj)
        names == effects[3 * i - 2].data.PropertyNames
        values == effects[3 * i].data.PropertyValues
    IN /\ effects[3 * i - 2].op = "PushSubjectStaticData"
       /\ effects[3 * i].op = "PushSubjectFrameData"
       /\ \A k \in 1..P :
             /\ names[k] = obj.Parameter[k].Name
             /\ values[k] = IF exact THEN obj.Parameter[k].Value
                            ELSE SinglePrecision(obj.Parameter[k].Value)
       /\ SubSeq(names, P + 1, P + 3) = <<"headRoll", "headPitch", "headYaw">>
       /\ SubSeq(values, P + 1, P + 3) =
             IF N = 0 THEN <<0, 0, 0>> ELSE RotationAngles(obj.Bone[N].Rotation)

\* C17 as stated: in every pushed update with P parameters, slot i of
\* property_names and property_values holds the Name and the Value of the
\* i-th "Parameter" entry, and slots P..P+2 hold the head names and values.
C17_SlotsAsStated ==
    \A i \in DOMAIN CurFields :
        (3 * i <= Len(effects) /\ "Parameter" \in DOMAIN CurFields[i].Value)
        => SlotsHold(i, TRUE)

\* C17 amended: slot i of property_values holds the Value of the i-th
\* "Parameter" entry converted to single precision; slot i of
\* property_names holds its Name, and slots P..P+2 hold the head names and
\* values, which the copy loops never overwrite.
C17_SlotsAmended ==
    \A i \in DOMAIN CurFields :
        (3 * i <= Len(effects) /\ "Parameter" \in DOMAIN CurFields[i].Value)
        => SlotsHold(i, FALSE)

\* C17 witness: an update with two parameters was pushed, one of them with
\* a value that single precision cannot hold.
C17_Witness ==
    /\ TaskFinished
    /\ Len(effects) >= 3
    /\ ParameterCount(CurFields[1].Value) = 2
    /\ \E k \in 1..2 : CurFields[1].Value.Parameter[k].Value = 16777217
    /\ Len(effects[3].data.PropertyValues) = 5

\* C18: no decode task ever runs against a destroyed source: a task still
\* queued when the destructor has finished is never run.
C18_NoTaskAfterDestruction == fault # "destroyed source"

\* C19: every push happens after the sink was attached: HandleReceivedData
\* never reaches PushSubjectStaticData while ReceiveClient has not yet set
\* Client and SourceGuid.
C19_NoPushBeforeAttach == fault # "client not set"

\* C20: between decode steps, a subject name is in the registry exactly
\* when static data has been pushed for it at least once; a subject whose
\* every update was aborted, or that was only ever seen after a malformed
\* subject, is not in it.
C20_RegistryIsStaticPushed ==
    /\ EncounteredSubjects = staticPushed
    /\ \A name \in Names :
          (name \in EncounteredSubjects /\ name \notin regAtBegin)
          => PushedFor(name, "PushSubjectStaticData")

\* C20 witness: a task has finished whose first subject was malformed and
\* whose second was well-formed; neither name is in the registry.
C20_Witness ==
    /\ TaskFinished
    /\ Len(CurFields) = 2
    /\ ~WellFormedSubject(CurFields[1].Value)
    /\ WellFormedSubject(CurFields[2].Value)
    /\ EncounteredSubjects \cap {CurFields[1].Key, CurFields[2].Key} = {}

====
